---- MODULE Spec2Model ----
(***************************************************************************)
(* Hotplug detection and device-task lifecycle of keysound:                *)
(* src/src/DeviceDetect.cc (device_detect, start_exists_device,            *)
(* get_event_id, device_state, is_keyboard, init_socket, stop_detect).     *)
(* The task registry behind event_id_exists / del_event_id /               *)
(* clear_all_key_detect_threads and the task body key_detect live in       *)
(* KeyDetect.cc, which is not part of the sources at hand; they are        *)
(* modelled from the specification's section 4.3.                          *)
(* Text is modelled as sequences of one-character strings, positions are   *)
(* 0-based as in std::string.                                              *)
(***************************************************************************)
EXTENDS Integers, Sequences, FiniteSets, TLC

VARIABLES
    detect,              \* static bool detect
    all_threads,         \* static std::vector<std::thread>: [id, st] per thread
    key_detect_threads,  \* registry: indices of all_threads that are registered
    pc,                  \* position of the listener thread inside device_detect
    sock_fd,             \* "none" | "open" | "closed" | "failed"
    queue,               \* datagrams waiting in the netlink socket
    inventory,           \* /proc/bus/input/devices: device id -> EV bitmap text
    buf,                 \* device_detect's receive buffer (last datagram)
    str_event_id,        \* device_detect's local str_event_id
    hist,                \* the last three notifications handled, in order
    delivered,           \* number of datagrams the kernel has sent
    join_idx             \* the join loop at lines 206-208: threads before it are joined

vars == <<detect, all_threads, key_detect_threads, pc, sock_fd, queue,
          inventory, buf, str_event_id, hist, delivered, join_idx>>

\* ------------------------------------------------------------------ bounds
MaxNotes == 3
MaxQueue == 2

\* ------------------------------------------------------------ text helpers
Min(a, b) == IF a < b THEN a ELSE b

\* std::string::npos
npos == -1

\* true iff pat occurs in s at 0-based position i
occurs_at(s, pat, i) ==
    /\ i >= 0
    /\ i + Len(pat) <= Len(s)
    /\ \A k \in 1..Len(pat) : s[i + k] = pat[k]

\* std::string::find(pat, from)
find(s, pat, from) ==
    LET hits == {i \in from..(Len(s) - Len(pat)) : occurs_at(s, pat, i)}
    IN  IF hits = {} THEN npos
        ELSE CHOOSE i \in hits : \A j \in hits : i <= j

\* std::string::substr(pos, count), for pos <= size(): count is clamped
substr(s, pos, count) == SubSeq(s, pos + 1, Min(pos + count, Len(s)))

\* grep PATTERN for a fixed-string pattern: does the line contain it
contains(line, pat) == find(line, pat, 0) # npos

T_event  == <<"e", "v", "e", "n", "t">>
T_slash  == <<"/">>
T_add    == <<"a", "d", "d">>
T_remove == <<"r", "e", "m", "o", "v", "e">>
T_change == <<"c", "h", "a", "n", "g", "e">>
T_path   == <<"@", "/", "i", "n", "p", "u", "t", "9">>
T_uevent == <<"/", "u", "e", "v", "e", "n", "t">>
T_nl     == <<"\n">>

\* --------------------------------------------------------- device inventory
Id3  == <<"3">>
Id30 == <<"3", "0">>
DevIds == {Id3, Id30}

EV_keyboard == <<"1", "2", "0", "0", "1", "3">>   \* SYN KEY MSC LED REP
EV_nokey    == <<"1", "2", "0", "0", "1", "1">>   \* same prefix, KEY bit clear
EV_mouse    == <<"1", "7">>                       \* a pointer device (mouse)
Absent      == <<>>
EVs == {EV_keyboard, EV_nokey, EV_mouse}

\* the kinds of device that can sit behind each event node
DevEVs(d) == IF d = Id3 THEN EVs ELSE {EV_keyboard}

Inventories == {inv \in [DevIds -> EVs \cup {Absent}] :
                   \A d \in DevIds : inv[d] \in DevEVs(d) \cup {Absent}}

Present(inv) == {d \in DevIds : inv[d] # Absent}

\* the "H: Handlers=... eventN " line of device d
HandlersLine(d) == <<"H", ":", " ">> \o T_event \o d \o <<" ">>

\* the regular expression EV=1[2]001[3Ff] of cmd2 against "B: EV=<ev>"
MatchesCmd2(ev) ==
    /\ Len(ev) >= 6
    /\ SubSeq(ev, 1, 5) = <<"1", "2", "0", "0", "1">>
    /\ ev[6] \in {"3", "F", "f"}

\* the regular expression EV=1[2]001 of cmd1 against "B: EV=<ev>"
MatchesCmd1(ev) ==
    /\ Len(ev) >= 5
    /\ SubSeq(ev, 1, 5) = <<"1", "2", "0", "0", "1">>

\* the device named exactly d reports key-event capability bits
KeyboardCapable(inv, d) == d \in DevIds /\ MatchesCmd2(inv[d])

\* the order of the device records in /proc/bus/input/devices
DevOrder == <<Id3, Id30>>

\* the devices that are attached and detached while device_detect runs
Hotplug == {Id3}

\* ------------------------------------------------------------ pure functions
\* static std::string get_event_id(std::string buf)
get_event_id(b) ==
    LET pos == find(b, T_event, 0)
    IN  IF pos = npos THEN <<>>
        ELSE LET ps == find(b, T_slash, pos)
                 pos_stop == IF ps = npos THEN Len(b) ELSE ps
             IN  substr(b, pos + 5, pos_stop - pos - 1)

\* static int device_state(std::string str)
device_state(str) ==
    IF find(str, T_add, 0) = 0 THEN 1
    ELSE IF find(str, T_remove, 0) = 0 THEN -1
    ELSE 0

\* the output of the shell pipeline cmd2 + event_id: the lines of the records
\* whose EV line matches, filtered by grep "event<event_id>"
Cmd2Output(inv, event_id) ==
    {d \in Present(inv) :
        /\ MatchesCmd2(inv[d])
        /\ contains(HandlersLine(d), T_event \o event_id)}

\* is_keyboard without the empty-identifier test of line 47
is_keyboard_no_empty_test(inv, event_id, popen_ok) ==
    IF ~popen_ok THEN FALSE
    ELSE Cmd2Output(inv, event_id) # {}

\* is_keyboard answering true when popen fails (line 53 returning true)
is_keyboard_popen_fail_true(inv, event_id, popen_ok) ==
    IF event_id = <<>> THEN FALSE
    ELSE IF ~popen_ok THEN TRUE
    ELSE Cmd2Output(inv, event_id) # {}

\* static bool is_keyboard(std::string &event_id); popen_ok: popen succeeded
is_keyboard(inv, event_id, popen_ok) ==
    IF event_id = <<>> THEN FALSE
    ELSE IF ~popen_ok THEN FALSE
    ELSE Cmd2Output(inv, event_id) # {}

\* the output of the shell pipeline cmd1: one line "eventN\n" per matching record
Cmd1Output(inv) ==
    LET keep == SelectSeq(DevOrder, LAMBDA d : inv[d] # Absent /\ MatchesCmd1(inv[d]))
    IN  [i \in 1..Len(keep) |-> T_event \o keep[i] \o T_nl]

\* std::thread(key_detect, id, audio, mixer) pushed on all_threads
NewThread(id) == [id |-> id, st |-> "spawned"]

\* lines 126-128: the identifier start_exists_device spawns for one line
StartupId(line) ==
    LET e == get_event_id(line) IN SubSeq(e, 1, Len(e) - 1)

\* ------------------------------------------------------------ task registry
\* bool event_id_exists(std::string): a live task is registered for id
event_id_exists(reg, threads, id) ==
    \E t \in reg : threads[t].id = id

\* void del_event_id(std::string): signal the task(s) of id, drop from live set
del_event_id_threads(reg, threads, id) ==
    [t \in DOMAIN threads |->
        IF t \in reg /\ threads[t].id = id
        THEN [threads[t] EXCEPT !.st = "cancelled"] ELSE threads[t]]

del_event_id_reg(reg, threads, id) == {t \in reg : threads[t].id # id}

\* void clear_all_key_detect_threads(): signal every registered task
clear_all_threads(reg, threads) ==
    [t \in DOMAIN threads |->
        IF t \in reg THEN [threads[t] EXCEPT !.st = "cancelled"] ELSE threads[t]]

\* tasks that have been spawned and not cancelled
Live(threads, id) ==
    {t \in DOMAIN threads : threads[t].id = id /\ threads[t].st \in {"spawned", "running"}}

\* ------------------------------------------------------------ notifications
Uevent(act, d)  == act \o T_path \o T_slash \o T_event \o d
\* datagrams the socket can receive besides the uevent of a plug or unplug:
\* re-triggered uevents of event3 and uevents of other kernel objects
Buffers ==
    { Uevent(T_add, Id3),
      T_add \o T_path,                           \* no event token
      Uevent(T_change, Id3) \o T_uevent }        \* neither add nor remove; a
                                                 \* path that continues after eventN

\* ------------------------------------------------------------------- Init
Init ==
    /\ detect = TRUE
    /\ all_threads = <<>>
    /\ key_detect_threads = {}
    /\ pc = "start"
    /\ sock_fd = "none"
    /\ queue = <<>>
    /\ inventory \in Inventories
    /\ buf = <<>>
    /\ str_event_id = <<>>
    /\ hist = <<>>
    /\ delivered = 0
    /\ join_idx = 1

\* ------------------------------------------------------ the listener thread
\* void stop_detect()
stop_detect ==
    /\ detect
    /\ pc \in {"start", "init_socket", "loop", "select"}
    /\ detect' = FALSE
    /\ UNCHANGED <<all_threads, key_detect_threads, pc, sock_fd, queue,
                   inventory, buf, str_event_id, hist, delivered, join_idx>>

\* start_exists_device reading one line only (an if for the while of line 122)
StartupThreads_first_line(inv) ==
    LET out == Cmd1Output(inv)
    IN  IF out = <<>> THEN <<>> ELSE <<NewThread(StartupId(out[1]))>>

\* the threads start_exists_device pushes for the lines of cmd1's output
StartupThreads(inv) ==
    LET out == Cmd1Output(inv)
    IN  [i \in 1..Len(out) |-> NewThread(StartupId(out[i]))]

\* static void start_exists_device(Audio *, Mixer *), popen succeeding
start_exists_device ==
    /\ pc = "start"
    /\ all_threads' = all_threads \o StartupThreads(inventory)
    /\ pc' = "init_socket"
    /\ UNCHANGED <<detect, key_detect_threads, sock_fd, queue, inventory, buf,
                   str_event_id, hist, delivered, join_idx>>

\* start_exists_device when popen fails: line 122 passes a null FILE* to feof
start_exists_device_popen_fails ==
    /\ pc = "start"
    /\ pc' = "crashed"
    /\ UNCHANGED <<detect, all_threads, key_detect_threads, sock_fd, queue,
                   inventory, buf, str_event_id, hist, delivered, join_idx>>

\* the early return of line 145 made to cancel the tasks first
init_socket_cancels_on_error ==
    /\ pc = "init_socket"
    /\ \E ok \in BOOLEAN :
          IF ok THEN sock_fd' = "open" /\ pc' = "loop"
                     /\ UNCHANGED <<all_threads, key_detect_threads>>
          ELSE /\ sock_fd' = "failed" /\ pc' = "returned_init_error"
               /\ all_threads' = clear_all_threads(key_detect_threads, all_threads)
               /\ key_detect_threads' = {}
    /\ UNCHANGED <<detect, queue, inventory, buf, str_event_id, hist, delivered,
                   join_idx>>

\* device_detect setting detect = true again before it listens
init_socket_resets_flag ==
    /\ pc = "init_socket"
    /\ detect' = TRUE
    /\ \E ok \in BOOLEAN :
          IF ok THEN sock_fd' = "open" /\ pc' = "loop"
          ELSE sock_fd' = "failed" /\ pc' = "returned_init_error"
    /\ UNCHANGED <<all_threads, key_detect_threads, queue, inventory,
                   buf, str_event_id, hist, delivered, join_idx>>

\* lines 142-146: init_socket() and the early return on failure
init_socket ==
    /\ pc = "init_socket"
    /\ \E ok \in BOOLEAN :
          IF ok THEN sock_fd' = "open" /\ pc' = "loop"
          ELSE sock_fd' = "failed" /\ pc' = "returned_init_error"
    /\ UNCHANGED <<detect, all_threads, key_detect_threads, queue, inventory,
                   buf, str_event_id, hist, delivered, join_idx>>

\* line 153 leaving the loop only when the flag is raised and nothing is
\* waiting on the socket
loop_check_drains_first ==
    /\ pc = "loop"
    /\ pc' = IF detect \/ queue # <<>> THEN "select" ELSE "clear"
    /\ UNCHANGED <<detect, all_threads, key_detect_threads, sock_fd, queue,
                   inventory, buf, str_event_id, hist, delivered, join_idx>>

\* line 153: while (detect)
loop_check ==
    /\ pc = "loop"
    /\ pc' = IF detect THEN "select" ELSE "clear"
    /\ UNCHANGED <<detect, all_threads, key_detect_threads, sock_fd, queue,
                   inventory, buf, str_event_id, hist, delivered, join_idx>>

\* lines 159-164: select times out or fails, or recv returns <= 0: the
\* iteration ends without a datagram
select_continue ==
    /\ pc = "select"
    /\ pc' = "loop"
    /\ UNCHANGED <<detect, all_threads, key_detect_threads, sock_fd, queue,
                   inventory, buf, str_event_id, hist, delivered, join_idx>>

\* lines 172-185, case 1: the threads after an Added notification
handle_add_threads(reg, threads, inv, id, popen_ok) ==
    IF event_id_exists(reg, threads, id) THEN threads
    ELSE IF is_keyboard(inv, id, popen_ok) THEN Append(threads, NewThread(id))
    ELSE threads

\* case -1 cancelling every thread of the identifier, registered or not
handle_remove_threads_by_id(reg, threads, id) ==
    [t \in DOMAIN threads |->
        IF threads[t].id = id /\ threads[t].st \in {"spawned", "running"}
        THEN [threads[t] EXCEPT !.st = "cancelled"] ELSE threads[t]]

\* case -1 waiting for the task to finish before it goes on
handle_remove_threads_waits(reg, threads, id) ==
    [t \in DOMAIN threads |->
        IF t \in reg /\ threads[t].id = id
        THEN [threads[t] EXCEPT !.st = "exited"] ELSE threads[t]]

\* lines 186-194, case -1: the threads after a Removed notification
handle_remove_threads(reg, threads, id) ==
    IF event_id_exists(reg, threads, id) THEN del_event_id_threads(reg, threads, id)
    ELSE threads

handle_remove_reg(reg, threads, id) ==
    IF event_id_exists(reg, threads, id) THEN del_event_id_reg(reg, threads, id)
    ELSE reg

\* what the listener did with one datagram
HistEntry(b, popen_ok) ==
    LET id == get_event_id(b)
        state == device_state(b)
        ex == event_id_exists(key_detect_threads, all_threads, id)
    IN  [act |-> state, id |-> id,
         kbd |-> KeyboardCapable(inventory, id) /\ (popen_ok \/ state # 1 \/ ex),
         classified |-> state = 1 /\ ~ex,
         popen_failed |-> state = 1 /\ ~ex /\ id # <<>> /\ ~popen_ok,
         stopped |-> ~detect,
         spawned |-> state = 1 /\ ~ex /\ is_keyboard(inventory, id, popen_ok)]

LastThree(h) == IF Len(h) > 3 THEN SubSeq(h, Len(h) - 2, Len(h)) ELSE h

\* lines 159-199: select reports data, recv succeeds, the datagram is handled
recv_handle ==
    /\ pc = "select"
    /\ queue # <<>>
    /\ \E popen_ok \in BOOLEAN :
        LET b == Head(queue)
            id == get_event_id(b)
            state == device_state(b)
        IN  /\ buf' = b
            /\ str_event_id' = id
            /\ queue' = Tail(queue)
            /\ hist' = LastThree(Append(hist, HistEntry(b, popen_ok)))
            /\ all_threads' =
                 IF state = 1
                 THEN handle_add_threads(key_detect_threads, all_threads, inventory, id, popen_ok)
                 ELSE IF state = -1
                 THEN handle_remove_threads(key_detect_threads, all_threads, id)
                 ELSE all_threads
            /\ key_detect_threads' =
                 IF state = -1
                 THEN handle_remove_reg(key_detect_threads, all_threads, id)
                 ELSE key_detect_threads
    /\ pc' = "loop"
    /\ UNCHANGED <<detect, sock_fd, inventory, delivered, join_idx>>

\* line 202: clear_all_key_detect_threads()
clear_all_key_detect_threads ==
    /\ pc = "clear"
    /\ all_threads' = clear_all_threads(key_detect_threads, all_threads)
    /\ key_detect_threads' = {}
    /\ pc' = "close"
    /\ UNCHANGED <<detect, sock_fd, queue, inventory, buf, str_event_id, hist,
                   delivered, join_idx>>

\* line 203: close(sock_fd)
close_socket ==
    /\ pc = "close"
    /\ sock_fd' = "closed"
    /\ queue' = <<>>
    /\ pc' = "join"
    /\ UNCHANGED <<detect, all_threads, key_detect_threads, inventory, buf,
                   str_event_id, hist, delivered, join_idx>>

\* th.join() can return: the thread has finished
Joinable(th) == th.st = "exited"

\* lines 206-208: one th.join() of the loop returns
join_thread ==
    /\ pc = "join"
    /\ join_idx <= Len(all_threads)
    /\ Joinable(all_threads[join_idx])
    /\ join_idx' = join_idx + 1
    /\ UNCHANGED <<detect, all_threads, key_detect_threads, pc, sock_fd, queue, inventory,
                   buf, str_event_id, hist, delivered>>

\* the join loop of lines 206-208 stopping one thread short
return_joined_one_short ==
    /\ pc = "join"
    /\ join_idx >= Len(all_threads)
    /\ pc' = "returned"
    /\ UNCHANGED <<detect, all_threads, key_detect_threads, sock_fd, queue,
                   inventory, buf, str_event_id, hist, delivered, join_idx>>

\* line 209: the join loop is over, device_detect returns
return_joined ==
    /\ pc = "join"
    /\ join_idx > Len(all_threads)
    /\ pc' = "returned"
    /\ UNCHANGED <<detect, all_threads, key_detect_threads, sock_fd, queue,
                   inventory, buf, str_event_id, hist, delivered, join_idx>>

\* ------------------------------------------------------- the task threads
\* device_detect and start_exists_device only construct the std::thread
\* (lines 128 and 181) and never add an identifier to the registry, so the
\* identifier is recorded by the new thread itself, at some point after the
\* spawn and concurrently with the listener.
\* key_detect(id, ...) starts running and records itself in the registry
key_detect_register(t) ==
    /\ all_threads[t].st = "spawned"
    /\ all_threads' = [all_threads EXCEPT ![t].st = "running"]
    /\ key_detect_threads' = key_detect_threads \cup {t}
    /\ UNCHANGED <<detect, pc, sock_fd, queue, inventory, buf, str_event_id,
                   hist, delivered, join_idx>>

\* key_detect(id, ...) sees its cancellation signal and returns
key_detect_exit(t) ==
    /\ all_threads[t].st = "cancelled"
    /\ all_threads' = [all_threads EXCEPT ![t].st = "exited"]
    /\ UNCHANGED <<detect, key_detect_threads, pc, sock_fd, queue, inventory,
                   buf, str_event_id, hist, delivered, join_idx>>

key_detect_step == \E t \in DOMAIN all_threads : key_detect_register(t) \/ key_detect_exit(t)

\* ---------------------------------------------------------- the environment
CanSend == delivered < MaxNotes /\ Len(queue) < MaxQueue

\* the kernel sends a datagram to the bound socket
Send(b) ==
    /\ queue' = Append(queue, b)
    /\ delivered' = delivered + 1

\* a keyboard is attached: the inventory gains it, a bound socket gets the uevent
Plug(d) ==
    /\ pc \in {"init_socket", "loop", "select"}
    /\ inventory[d] = Absent
    /\ inventory' = [inventory EXCEPT ![d] = EV_keyboard]
    /\ IF sock_fd = "open" THEN CanSend /\ Send(Uevent(T_add, d))
       ELSE UNCHANGED <<queue, delivered>>
    /\ UNCHANGED <<detect, all_threads, key_detect_threads, pc, sock_fd, buf,
                   str_event_id, hist, join_idx>>

\* a device is detached
Unplug(d) ==
    /\ pc \in {"init_socket", "loop", "select"}
    /\ inventory[d] # Absent
    /\ inventory' = [inventory EXCEPT ![d] = Absent]
    /\ IF sock_fd = "open" THEN CanSend /\ Send(Uevent(T_remove, d))
       ELSE UNCHANGED <<queue, delivered>>
    /\ UNCHANGED <<detect, all_threads, key_detect_threads, pc, sock_fd, buf,
                   str_event_id, hist, join_idx>>

\* any other datagram arrives on the bound socket (repeated or unrelated uevents)
Deliver(b) ==
    /\ sock_fd = "open"
    /\ CanSend
    /\ Send(b)
    /\ UNCHANGED <<detect, all_threads, key_detect_threads, pc, sock_fd,
                   inventory, buf, str_event_id, hist, join_idx>>

Listener ==
    \/ start_exists_device
    \/ start_exists_device_popen_fails
    \/ init_socket
    \/ loop_check
    \/ select_continue
    \/ recv_handle
    \/ clear_all_key_detect_threads
    \/ close_socket
    \/ join_thread
    \/ return_joined

Environment ==
    \/ \E d \in Hotplug : Plug(d)
    \/ \E d \in Hotplug : Unplug(d)
    \/ \E b \in Buffers : Deliver(b)

Next ==
    \/ Listener
    \/ key_detect_step
    \/ stop_detect
    \/ Environment

Spec == Init /\ [][Next]_vars

\* the scheduler runs the listener and every task thread again and again
FairSpec == Spec /\ WF_vars(Listener) /\ WF_vars(key_detect_step)

\* ------------------------------------------------------------------ claims
Listening == pc \in {"loop", "select"}
Joined(t) == t < join_idx
LiveCount(id) == Cardinality(Live(all_threads, id))
StartsWith(b, pat) == Len(b) >= Len(pat) /\ SubSeq(b, 1, Len(pat)) = pat

\* C1: in every reachable state at most one task that has been spawned and
\* not yet cancelled exists for any device identifier.
C1_AtMostOneLiveTask ==
    \A t1, t2 \in DOMAIN all_threads :
        ( /\ all_threads[t1].id = all_threads[t2].id
          /\ all_threads[t1].st \in {"spawned", "running"}
          /\ all_threads[t2].st \in {"spawned", "running"} ) => t1 = t2

\* C2: when two Added notifications for the same keyboard-capable identifier
\* are handled in succession and the first spawned a task, the second neither
\* runs the classifier nor spawns a thread.
C2_IdempotentStart ==
    \A i \in 1..(Len(hist) - 1) :
        ( /\ hist[i].act = 1 /\ hist[i].kbd /\ hist[i].spawned
          /\ hist[i + 1].act = 1 /\ hist[i + 1].id = hist[i].id )
        => (~hist[i + 1].classified /\ ~hist[i + 1].spawned)

\* C3: after Add(X), Remove(X), Add(X) have been handled in that order for a
\* keyboard-capable X, while the listener is still listening, exactly one
\* task for X is spawned and not cancelled.
C3_AddRemoveAdd ==
    ( /\ Listening
      /\ Len(hist) = 3
      /\ hist[1].act = 1 /\ hist[2].act = -1 /\ hist[3].act = 1
      /\ hist[1].id = hist[3].id /\ hist[2].id = hist[3].id
      /\ hist[1].kbd /\ hist[3].kbd )
    => LiveCount(hist[3].id) = 1

\* C4: whenever device_detect has returned after leaving its poll loop, the
\* registry holds no live task and every thread ever spawned has terminated
\* and been joined.
C4_DrainComplete ==
    pc = "returned" =>
        /\ key_detect_threads = {}
        /\ \A t \in DOMAIN all_threads : all_threads[t].st = "exited" /\ Joined(t)

\* a return after a drain that had tasks of a removed device and of a present one
C4_Witness ==
    /\ pc = "returned"
    /\ Len(all_threads) >= 2
    /\ \E i \in 1..Len(hist) : hist[i].act = -1

\* C5: once the stop flag is raised while the listener is in its poll loop,
\* device_detect eventually returns (tasks exit once signalled, scheduling is
\* fair).
C5_ShutdownLiveness == (~detect /\ Listening) ~> (pc = "returned")

\* the identifier the contract of get_event_id describes: the characters after
\* the first "event" up to the next "/" or the end of the buffer
ContractEventId(b) ==
    LET pos == find(b, T_event, 0)
    IN  IF pos = npos THEN <<>>
        ELSE LET rest == SubSeq(b, pos + 6, Len(b))
                 cut == {k \in 1..Len(rest) : rest[k] = "/"}
             IN  IF cut = {} THEN rest
                 ELSE SubSeq(rest, 1, (CHOOSE k \in cut : \A j \in cut : k <= j) - 1)

\* C6: the identifier device_detect extracted from the last datagram is the one
\* the contract of get_event_id describes.
C6_Extraction == str_event_id = ContractEventId(buf)

\* the datagram is one the listener has to discard
Discarded(b) ==
    \/ ~StartsWith(b, T_add) /\ ~StartsWith(b, T_remove)
    \/ get_event_id(b) = <<>>

\* C7: handling a notification whose action is Other or whose identifier is
\* empty spawns no thread, cancels no task, leaves the registry unchanged and
\* leaves the listener in its poll loop.
C7_DiscardFrame ==
    [][ (pc = "select" /\ queue # <<>> /\ buf' = Head(queue) /\ queue' = Tail(queue)
           /\ Discarded(Head(queue)))
        => (all_threads' = all_threads /\ key_detect_threads' = key_detect_threads
              /\ pc' = "loop") ]_vars

\* an add without an event token has been handled while a keyboard was present
C7_Witness ==
    /\ pc = "loop"
    /\ buf = T_add \o T_path
    /\ hist # <<>> /\ hist[Len(hist)].id = <<>> /\ hist[Len(hist)].act = 1
    /\ \E d \in DevIds : KeyboardCapable(inventory, d)

\* C8: the step that completes the startup enumerator leaves a spawned task
\* for every keyboard-capable device present at the start, with the
\* notification channel not yet acquired and no notification handled.
C8_StartupCoverage ==
    [][ (pc = "start" /\ pc' = "init_socket")
        => ( /\ \A d \in DevIds : KeyboardCapable(inventory, d) =>
                   \E t \in DOMAIN all_threads' :
                       all_threads'[t].id = d /\ all_threads'[t].st = "spawned"
             /\ sock_fd = "none" /\ sock_fd' = "none"
             /\ hist' = <<>> /\ queue' = <<>> ) ]_vars

\* the enumerator has completed with two keyboards present
C8_Witness ==
    /\ pc = "init_socket"
    /\ \A d \in DevIds : KeyboardCapable(inventory, d)
    /\ Len(all_threads) = 2
    /\ hist = <<>>

\* C9: whenever the listener classified an identifier as a keyboard, the device
\* named by exactly that identifier reported key-event capability bits.
C9_ClassifierBoundary ==
    \A i \in 1..Len(hist) : hist[i].spawned => hist[i].kbd

\* C10: after a failed channel acquisition device_detect has returned without
\* handling a notification, and no task has been cancelled or joined.
C10_AcquireFailure ==
    pc = "returned_init_error" =>
        /\ sock_fd = "failed"
        /\ hist = <<>> /\ buf = <<>>
        /\ join_idx = 1
        /\ \A t \in DOMAIN all_threads : all_threads[t].st \in {"spawned", "running"}

\* the early return with a startup task registered and running
C10_Witness ==
    /\ pc = "returned_init_error"
    /\ \E t \in DOMAIN all_threads : all_threads[t].st = "running"

\* the listener handles the datagram at the head of the socket queue
Handles == pc = "select" /\ queue # <<>> /\ buf' = Head(queue) /\ queue' = Tail(queue)
Last(h) == h[Len(h)]

\* C11: handling a Removed notification for an identifier with no registered
\* task cancels nothing, leaves the registry and the spawned threads unchanged
\* and leaves the listener in its poll loop.
C11_RemovalSafety ==
    [][ ( /\ Handles
          /\ StartsWith(Head(queue), T_remove)
          /\ ~\E t \in key_detect_threads :
                 all_threads[t].id = get_event_id(Head(queue)) )
        => ( /\ all_threads' = all_threads
             /\ key_detect_threads' = key_detect_threads
             /\ join_idx' = join_idx
             /\ pc' = "loop" ) ]_vars

\* a remove of event3 has been handled while its task was spawned but not yet
\* registered, and the task is untouched
C11_Witness ==
    /\ Listening
    /\ hist # <<>> /\ Last(hist).act = -1 /\ Last(hist).id = Id3
    /\ \E t \in DOMAIN all_threads :
           all_threads[t].id = Id3 /\ all_threads[t].st = "spawned"

\* C12: handling an Added notification for an untracked identifier whose
\* capability probe fails (popen fails, or the pipeline prints nothing) spawns
\* no task and leaves the listener in its poll loop.
C12_ProbeFailure ==
    [][ ( /\ Handles
          /\ \/ Last(hist').popen_failed
             \/ /\ Last(hist').classified
                /\ Cmd2Output(inventory, Last(hist').id) = {} )
        => ( /\ all_threads' = all_threads
             /\ key_detect_threads' = key_detect_threads
             /\ pc' = "loop" ) ]_vars

\* the probe of an attached keyboard has failed and the listener went on
C12_Witness ==
    /\ pc = "loop"
    /\ hist # <<>> /\ Last(hist).popen_failed
    /\ KeyboardCapable(inventory, Last(hist).id)
    /\ Live(all_threads, Last(hist).id) = {}

\* C13: tasks are signalled by the drain and joined only after the stop flag
\* has been observed and the channel has been closed.
C13_DrainAfterClose ==
    [][ ((pc = "clear" /\ pc' = "close" /\ all_threads' # all_threads)
           \/ join_idx' # join_idx)
        => (~detect /\ sock_fd = "closed") ]_vars

\* C14: the identifiers start_exists_device spawns tasks for are exactly the
\* present identifiers is_keyboard classifies as keyboards.
C14_SameCapabilityTest ==
    [][ (pc = "start" /\ pc' = "init_socket")
        => {all_threads'[t].id : t \in DOMAIN all_threads'}
             = {d \in Present(inventory) : is_keyboard(inventory, d, TRUE)} ]_vars

\* C15: at most one notification is handled after the stop flag was raised.
C15_AtMostOneAfterStop ==
    /\ Cardinality({i \in 1..Len(hist) : hist[i].stopped}) <= 1
    /\ (pc \in {"clear", "close", "join", "returned"}) => ~detect

\* the flag was raised during an iteration, that iteration handled its
\* notification, another one was waiting, and the listener left the loop
C15_Witness ==
    /\ pc = "clear"
    /\ hist # <<>> /\ Last(hist).stopped
    /\ queue # <<>>

\* C16: the listener joins no thread while it is listening; handling a Removed
\* notification leaves the join loop untouched, finishes no task and returns to
\* the poll loop; a task only finishes by its own step, after it was signalled.
C16_StopDoesNotWait ==
    /\ [](Listening => join_idx = 1)
    /\ [][ /\ (Handles /\ StartsWith(Head(queue), T_remove))
              => (join_idx' = join_idx /\ pc' = "loop")
           /\ \A t \in DOMAIN all_threads :
                 (all_threads'[t].st = "exited" /\ all_threads[t].st # "exited")
                 => (all_threads[t].st = "cancelled" /\ pc' = pc) ]_vars

\* a notification has been handled after a remove while the cancelled task of
\* the removed device was still running
C16_Witness ==
    /\ Listening
    /\ Len(hist) >= 2 /\ hist[Len(hist) - 1].act = -1
    /\ \E t \in DOMAIN all_threads :
           /\ all_threads[t].id = hist[Len(hist) - 1].id
           /\ all_threads[t].st = "cancelled"

\* C17: the stop flag starts not raised, is raised by stop_detect alone, is
\* never lowered, and a listener that finds it raised when it reaches its loop
\* handles no notification.
C17_StopFlagMonotonic ==
    /\ detect = TRUE
    /\ [][ /\ ~detect => ~detect'
           /\ detect' # detect
              => UNCHANGED <<all_threads, key_detect_threads, pc, sock_fd, queue,
                             inventory, buf, str_event_id, hist, delivered, join_idx>>
           /\ (~detect /\ pc \in {"start", "init_socket", "loop"})
              => (hist' = hist /\ pc' # "select") ]_vars

\* the flag was raised before the listener handled anything; a notification
\* was waiting and the listener left the loop without handling it
C17_Witness ==
    /\ ~detect
    /\ pc = "clear"
    /\ hist = <<>>
    /\ queue # <<>>

\* C18: once the listener is idle in its poll loop (flag not raised, nothing
\* waiting on the socket), every attached keyboard-capable device has a live
\* monitoring task; no further notification will come for it.
C18_NoCoverageGap ==
    (Listening /\ detect /\ queue = <<>>)
    => \A d \in DevIds : KeyboardCapable(inventory, d) => Live(all_threads, d) # {}

\* C19: the startup enumerator reaches no crash state.
C19_StartupPopenFailure == pc # "crashed"

====
